---- MODULE Spec2Model ----
(***************************************************************************)
(* Black-Scholes option pricing calculator (src/main.py).                  *)
(*                                                                         *)
(* The six engine functions compute_option_price, compute_delta,           *)
(* compute_gamma, compute_theta, compute_vega and compute_rho, and the     *)
(* Streamlit script that reads the sidebar widgets, sweeps the spot range  *)
(* and displays the metrics.                                               *)
(*                                                                         *)
(* Numbers.  A float64 is modelled as a record [k, v]: k = "fin" with v    *)
(* the value in units of 1/SCALE (fixed point, rounded to nearest), or one *)
(* of the IEEE special values "pinf", "ninf", "nan" that numpy produces    *)
(* instead of raising.  Float64 rounding itself is abstracted by the       *)
(* fixed-point rounding.                                                   *)
(***************************************************************************)
EXTENDS Integers, Sequences, FiniteSets, TLC

(***************************************************************************)
(* Fixed-point arithmetic on integers, exact in 32-bit intermediate values *)
(***************************************************************************)
SCALE == 1000 * 1000

Abs(x) == IF x < 0 THEN -x ELSE x
Sgn(x) == IF x < 0 THEN -1 ELSE IF x > 0 THEN 1 ELSE 0

\* <<quotient, remainder>> of r * b by c, for 0 <= r < c and b >= 0, taking
\* the digits of b in radix R; exact as long as 2 * R * c fits in 32 bits
RECURSIVE DivMod(_, _, _, _)
DivMod(r, b, c, R) ==
    IF b = 0 THEN <<0, 0>>
    ELSE LET p == DivMod(r, b \div R, c, R)
             t == R * p[2] + (b % R) * r
         IN  <<R * p[1] + t \div c, t % c>>

Radix(c) == IF c <= 1024 * 1024 THEN 1024 ELSE IF c <= 32 * 1024 * 1024 THEN 32 ELSE 2

\* a * b / c rounded to nearest (ties away from zero), for a, b >= 0, c > 0
MulDivNat(a, b, c) ==
    LET p == DivMod(a % c, b, c, Radix(c))
    IN  (a \div c) * b + p[1] + (IF 2 * p[2] >= c THEN 1 ELSE 0)

MulDiv(a, b, c) == Sgn(a) * Sgn(b) * Sgn(c) * MulDivNat(Abs(a), Abs(b), Abs(c))

FxMul(a, b) == MulDiv(a, b, SCALE)
FxDiv(a, b) == MulDiv(a, SCALE, b)
\* division of a fixed-point value by a whole number, rounded to nearest
FxDivInt(a, n) == MulDiv(a, 1, n)

RECURSIVE Pow2(_)
Pow2(k) == IF k = 0 THEN 1 ELSE 2 * Pow2(k - 1)

(***************************************************************************)
(* numpy / scipy elementary functions on finite fixed-point arguments      *)
(***************************************************************************)
\* np.sqrt: Newton iteration from above
RECURSIVE SqrtIter(_, _)
SqrtIter(x, y) ==
    LET y2 == (y + FxDiv(x, y)) \div 2
    IN  IF y2 >= y THEN y ELSE SqrtIter(x, y2)

Sqrt(x) == IF x = 0 THEN 0 ELSE SqrtIter(x, IF x > SCALE THEN x ELSE SCALE)

LN2 == 693147
SQRT2 == 1414214

\* the k with x / 2^k in [1/sqrt2, sqrt2], for x >= SCALE/sqrt2
RECURSIVE LnExpo(_, _)
LnExpo(x, k) == IF x > SQRT2 * Pow2(k) THEN LnExpo(x, k + 1) ELSE k

\* the j with x * 2^j >= SCALE/sqrt2, for 0 < x
RECURSIVE LnShift(_, _)
LnShift(x, j) == IF 2 * x * Pow2(j) < SQRT2 THEN LnShift(x, j + 1) ELSE j

\* z + z^3/3 + z^5/5 + ... ; zp = z^n, the next term's power
RECURSIVE ATanhSeries(_, _, _)
ATanhSeries(zp, z2, n) ==
    IF zp = 0 THEN 0 ELSE FxDivInt(zp, n) + ATanhSeries(FxMul(zp, z2), z2, n + 2)

\* np.log of x > 0: ln x = k ln2 + 2 atanh((m - 1) / (m + 1)), m = x / 2^k
Ln(x) ==
    LET j == LnShift(x, 0)
        xs == x * Pow2(j)
        k == LnExpo(xs, 0)
        p == SCALE * Pow2(k)
        z == FxDiv(xs - p, xs + p)
    IN  (k - j) * LN2 + 2 * ATanhSeries(z, FxMul(z, z), 1)

\* 1 - f + f^2/2! - ... ; t = the current term
RECURSIVE ExpSeries(_, _, _)
ExpSeries(t, f, n) ==
    IF t = 0 THEN 0 ELSE t + ExpSeries(-FxDivInt(FxMul(t, f), n), f, n + 1)

\* exp(-y) for y >= 0: y = k ln2 + f, exp(-y) = exp(-f) / 2^k
ExpNeg(y) ==
    LET k == y \div LN2
        f == y - k * LN2
    IN  IF k > 30 THEN 0 ELSE FxDivInt(ExpSeries(SCALE, f, 1), Pow2(k))

\* np.exp
Exp(x) == IF x <= 0 THEN ExpNeg(-x) ELSE FxDiv(SCALE, ExpNeg(x))

INV_SQRT_2PI == 398942
\* beyond this |x| the density and the tails are below half a unit of 1/SCALE
TAIL == 6 * SCALE

\* scipy.stats.norm.pdf
Pdf(x) ==
    IF Abs(x) >= TAIL THEN 0
    ELSE FxMul(INV_SQRT_2PI, Exp(-(FxMul(x, x) \div 2)))

\* norm.cdf at the anchors 0, 0.5, 1, ..., 6
CdfAnchor ==
    <<500000, 691462, 841345, 933193, 977250, 993790, 998650,
      999767, 999968, 999997, 1000000, 1000000, 1000000>>

HALF == SCALE \div 2

\* sum over n of (-1)^n c_n / (n + 1), c_n = He_n(a) h^n / n!  (Taylor
\* expansion of the normal CDF about the anchor a)
RECURSIVE CdfSeries(_, _, _, _, _, _)
CdfSeries(cPrev, c, n, ah, h2, sign) ==
    IF c = 0 /\ cPrev = 0 THEN 0
    ELSE sign * FxDivInt(c, n + 1)
         + CdfSeries(c, FxDivInt(FxMul(ah, c) - FxMul(h2, cPrev), n + 1),
                     n + 1, ah, h2, -sign)

CdfPos(x) ==
    IF x >= TAIL THEN SCALE
    ELSE LET i == (x + HALF \div 2) \div HALF
             a == i * HALF
             h == x - a
             s == CdfSeries(0, SCALE, 0, FxMul(a, h), FxMul(h, h), 1)
         IN  CdfAnchor[i + 1] + FxMul(FxMul(Pdf(a), h), s)

\* scipy.stats.norm.cdf
Cdf(x) == IF x >= 0 THEN CdfPos(x) ELSE SCALE - CdfPos(-x)

(***************************************************************************)
(* float64 values: finite fixed-point numbers and the IEEE special values  *)
(***************************************************************************)
Fin(n) == [k |-> "fin", v |-> n]
PInf == [k |-> "pinf", v |-> 0]
NInf == [k |-> "ninf", v |-> 0]
NaN == [k |-> "nan", v |-> 0]

FSign(a) == IF a.k = "fin" THEN Sgn(a.v) ELSE IF a.k = "pinf" THEN 1 ELSE -1
FInfOf(s) == IF s > 0 THEN PInf ELSE NInf

FNeg(a) ==
    IF a.k = "fin" THEN Fin(-a.v)
    ELSE IF a.k = "pinf" THEN NInf
    ELSE IF a.k = "ninf" THEN PInf
    ELSE NaN

FAdd(a, b) ==
    IF a.k = "nan" \/ b.k = "nan" THEN NaN
    ELSE IF a.k = "fin" /\ b.k = "fin" THEN Fin(a.v + b.v)
    ELSE IF a.k = "fin" THEN b
    ELSE IF b.k = "fin" THEN a
    ELSE IF a.k = b.k THEN a
    ELSE NaN

FSub(a, b) == FAdd(a, FNeg(b))

FMul(a, b) ==
    IF a.k = "nan" \/ b.k = "nan" THEN NaN
    ELSE IF a.k = "fin" /\ b.k = "fin" THEN Fin(FxMul(a.v, b.v))
    ELSE IF FSign(a) * FSign(b) = 0 THEN NaN
    ELSE FInfOf(FSign(a) * FSign(b))

\* numpy true division: a zero divisor gives inf or nan (with a
\* RuntimeWarning), never an exception.  Zero divisors here are +0.0.
FDiv(a, b) ==
    IF a.k = "nan" \/ b.k = "nan" THEN NaN
    ELSE IF a.k = "fin" /\ b.k = "fin"
         THEN IF b.v = 0
              THEN (IF a.v = 0 THEN NaN ELSE FInfOf(a.v))
              ELSE Fin(FxDiv(a.v, b.v))
    ELSE IF a.k = "fin" THEN Fin(0)
    ELSE IF b.k = "fin" THEN FInfOf(FSign(a) * (IF b.v < 0 THEN -1 ELSE 1))
    ELSE NaN

\* division by a whole-number literal
FDivInt(a, n) == IF a.k = "fin" THEN Fin(FxDivInt(a.v, n)) ELSE a

\* np.log
FLog(a) ==
    IF a.k = "fin"
    THEN (IF a.v > 0 THEN Fin(Ln(a.v)) ELSE IF a.v = 0 THEN NInf ELSE NaN)
    ELSE IF a.k = "pinf" THEN PInf
    ELSE NaN

\* np.sqrt
FSqrt(a) ==
    IF a.k = "fin" THEN (IF a.v >= 0 THEN Fin(Sqrt(a.v)) ELSE NaN)
    ELSE IF a.k = "pinf" THEN PInf
    ELSE NaN

\* np.exp
FExp(a) ==
    IF a.k = "fin" THEN Fin(Exp(a.v))
    ELSE IF a.k = "pinf" THEN PInf
    ELSE IF a.k = "ninf" THEN Fin(0)
    ELSE NaN

\* scipy.stats.norm.cdf
FCdf(a) ==
    IF a.k = "fin" THEN Fin(Cdf(a.v))
    ELSE IF a.k = "pinf" THEN Fin(SCALE)
    ELSE IF a.k = "ninf" THEN Fin(0)
    ELSE NaN

\* scipy.stats.norm.pdf
FPdf(a) ==
    IF a.k = "fin" THEN Fin(Pdf(a.v))
    ELSE IF a.k = "nan" THEN NaN
    ELSE Fin(0)

(***************************************************************************)
(* Outcomes of a call of an engine function                                *)
(***************************************************************************)
NoValue == [k |-> "none", v |-> 0]

\* `return x`
Return(x) == [kind |-> "return", val |-> x, exc |-> "", sidebar |-> FALSE]
\* an exception leaving the function
Raise(e) == [kind |-> "raise", val |-> NoValue, exc |-> e, sidebar |-> FALSE]

\* The bare `except:` clause: st.sidebar.error(...) is called and the function
\* falls off its end, returning None.
\* faulty variant: no catch-all, the exception leaves the function
TryExcept_propagates(o) == o

TryExcept(o) ==
    IF o.kind = "raise"
    THEN [kind |-> "None", val |-> NoValue, exc |-> "", sidebar |-> TRUE]
    ELSE o

(***************************************************************************)
(* The engine functions.  spot is a record [v, np]: its value and whether  *)
(* it is a numpy.float64 (an element of the swept range) or a Python float *)
(* (a widget value); the other parameters are Python floats.               *)
(***************************************************************************)
PyFloat(x) == [v |-> x, np |-> FALSE]
NpFloat(x) == [v |-> x, np |-> TRUE]

\* `spot/strike` between two Python floats raises ZeroDivisionError on a zero
\* strike; with a numpy.float64 spot it yields inf or nan.
ZeroDivisionError(spot, strike) == ~spot.np /\ strike = 0

\* vol * np.sqrt(maturity)
vol_sqrt_maturity(maturity, vol) == FMul(Fin(vol), FSqrt(Fin(maturity)))

\* vol**2/2
half_vol_squared(vol) == FxDivInt(FxMul(vol, vol), 2)

d1_of(spot, strike, rate, maturity, vol) ==
    FDiv(FAdd(FLog(FDiv(Fin(spot.v), Fin(strike))),
              Fin(FxMul(rate + half_vol_squared(vol), maturity))),
         vol_sqrt_maturity(maturity, vol))

\* d2 = d1 - vol * np.sqrt(maturity)
d2_of(d1, maturity, vol) == FSub(d1, vol_sqrt_maturity(maturity, vol))

\* np.exp(-rate * maturity)
discount(rate, maturity) == FExp(Fin(-FxMul(rate, maturity)))

\* faulty variant: norm.cdf(d1) in both terms
call_price_d1_twice(spot, strike, rate, maturity, d1, d2) ==
    FSub(FMul(Fin(spot.v), FCdf(d1)),
         FMul(FMul(Fin(strike), discount(rate, maturity)), FCdf(d1)))

call_price(spot, strike, rate, maturity, d1, d2) ==
    FSub(FMul(Fin(spot.v), FCdf(d1)),
         FMul(FMul(Fin(strike), discount(rate, maturity)), FCdf(d2)))

\* faulty variant: norm.cdf(-d1) in both terms
put_price_d1_twice(spot, strike, rate, maturity, d1, d2) ==
    FSub(FMul(FMul(Fin(strike), discount(rate, maturity)), FCdf(FNeg(d1))),
         FMul(Fin(spot.v), FCdf(FNeg(d1))))

put_price(spot, strike, rate, maturity, d1, d2) ==
    FSub(FMul(FMul(Fin(strike), discount(rate, maturity)), FCdf(FNeg(d2))),
         FMul(Fin(spot.v), FCdf(FNeg(d1))))

compute_option_price(spot, strike, rate, maturity, vol, option_type) ==
    IF ZeroDivisionError(spot, strike) THEN Raise("ZeroDivisionError")
    ELSE LET d1 == d1_of(spot, strike, rate, maturity, vol)
             d2 == d2_of(d1, maturity, vol)
         IN  TryExcept(
               IF option_type = "call"
               THEN Return(call_price(spot, strike, rate, maturity, d1, d2))
               ELSE IF option_type = "put"
               THEN Return(put_price(spot, strike, rate, maturity, d1, d2))
               ELSE Raise("UnboundLocalError"))

compute_delta(spot, strike, rate, maturity, vol, option_type) ==
    IF ZeroDivisionError(spot, strike) THEN Raise("ZeroDivisionError")
    ELSE LET d1 == d1_of(spot, strike, rate, maturity, vol)
         IN  TryExcept(
               IF option_type = "call" THEN Return(FCdf(d1))
               ELSE IF option_type = "put" THEN Return(FNeg(FCdf(FNeg(d1))))
               ELSE Raise("UnboundLocalError"))

compute_gamma(spot, strike, rate, maturity, vol) ==
    IF ZeroDivisionError(spot, strike) THEN Raise("ZeroDivisionError")
    ELSE LET d1 == d1_of(spot, strike, rate, maturity, vol)
         IN  TryExcept(Return(
               FDiv(FPdf(d1),
                    FMul(FMul(Fin(spot.v), Fin(vol)), FSqrt(Fin(maturity))))))

\* - (spot * norm.pdf(d1) * vol) / (2 * np.sqrt(maturity))
theta_decay(spot, maturity, vol, d1) ==
    FDiv(FNeg(FMul(FMul(Fin(spot.v), FPdf(d1)), Fin(vol))),
         FMul(Fin(2 * SCALE), FSqrt(Fin(maturity))))

\* rate * strike * np.exp(-rate*maturity) * norm.cdf(x)
theta_carry(strike, rate, maturity, x) ==
    FMul(FMul(FMul(Fin(rate), Fin(strike)), discount(rate, maturity)), FCdf(x))

DAYS_PER_YEAR == 365

compute_theta(spot, strike, rate, maturity, vol, option_type) ==
    IF ZeroDivisionError(spot, strike) THEN Raise("ZeroDivisionError")
    ELSE LET d1 == d1_of(spot, strike, rate, maturity, vol)
             d2 == d2_of(d1, maturity, vol)
         IN  TryExcept(
               IF option_type = "call"
               THEN Return(FDivInt(FSub(theta_decay(spot, maturity, vol, d1),
                                        theta_carry(strike, rate, maturity, d2)),
                                   DAYS_PER_YEAR))
               ELSE IF option_type = "put"
               THEN Return(FDivInt(FAdd(theta_decay(spot, maturity, vol, d1),
                                        theta_carry(strike, rate, maturity, FNeg(d2))),
                                   DAYS_PER_YEAR))
               ELSE Raise("UnboundLocalError"))

\* the literal 0.01
HUNDREDTH == SCALE \div 100

compute_vega(spot, strike, rate, maturity, vol) ==
    IF ZeroDivisionError(spot, strike) THEN Raise("ZeroDivisionError")
    ELSE LET d1 == d1_of(spot, strike, rate, maturity, vol)
         IN  TryExcept(Return(
               FMul(FMul(FMul(Fin(spot.v), FSqrt(Fin(maturity))), FPdf(d1)),
                    Fin(HUNDREDTH))))

\* faulty variant: (rate + vol**2/2), which is d1
rho_d2_plus(spot, strike, rate, maturity, vol) ==
    FDiv(FAdd(FLog(FDiv(Fin(spot.v), Fin(strike))),
              Fin(FxMul(rate + half_vol_squared(vol), maturity))),
         vol_sqrt_maturity(maturity, vol))

\* the d2 of compute_rho, computed directly
rho_d2(spot, strike, rate, maturity, vol) ==
    FDiv(FAdd(FLog(FDiv(Fin(spot.v), Fin(strike))),
              Fin(FxMul(rate - half_vol_squared(vol), maturity))),
         vol_sqrt_maturity(maturity, vol))

\* s * 0.01 * strike * maturity * np.exp(-rate*maturity) * norm.cdf(x)
rho_term(s, strike, rate, maturity, x) ==
    FMul(FMul(FMul(FMul(Fin(s * HUNDREDTH), Fin(strike)), Fin(maturity)),
              discount(rate, maturity)),
         FCdf(x))

compute_rho(spot, strike, rate, maturity, vol, option_type) ==
    IF ZeroDivisionError(spot, strike) THEN Raise("ZeroDivisionError")
    ELSE LET d2 == rho_d2(spot, strike, rate, maturity, vol)
         IN  TryExcept(
               IF option_type = "call"
               THEN Return(rho_term(1, strike, rate, maturity, d2))
               ELSE IF option_type = "put"
               THEN Return(rho_term(-1, strike, rate, maturity, FNeg(d2)))
               ELSE Raise("UnboundLocalError"))

(***************************************************************************)
(* The Streamlit script                                                    *)
(***************************************************************************)
VARIABLES
    interest_rate,          \* sidebar widget "Risk-Free Rate"
    spot_price,             \* sidebar widget "Underlying Asset Price"
    strike_price,           \* sidebar widget "Strike Price"
    days_to_maturity,       \* sidebar widget "Days Until Expiry" (whole days)
    volatility,             \* sidebar widget "Volatility"
    option_type_selection,  \* sidebar selectbox "Option Type"
    maturity_time, option_type, spot_prices_range,
    option_prices, deltas, gammas, thetas, vegas, rhos,
    metrics,                \* the st.metric cells shown, in display order
    sidebar_errors,         \* number of st.sidebar.error messages shown
    pc,                     \* position of the script
    args,                   \* argument tuple of a direct call of the engine
    last_call,              \* function and arguments of the latest compute_* call
    result                  \* its outcome

widgets == <<interest_rate, spot_price, strike_price, days_to_maturity,
             volatility, option_type_selection>>
globals == <<maturity_time, option_type, spot_prices_range>>
series == <<option_prices, deltas, gammas, thetas, vegas, rhos>>
vars == <<widgets, globals, series, metrics, sidebar_errors, pc, args,
          last_call, result>>

\* Bounds of the model
MaxSpotTenths == 301
MaxDays == 250
MaxVolPct == 30

Tenths(n) == n * (SCALE \div 10)
Percent(n) == n * (SCALE \div 100)
Permille(n) == n * (SCALE \div 1000)

\* widget defaults (value=...) and their neighbours up to the bounds
DEFAULT_SPOT_TENTHS == 300
DEFAULT_STRIKE_TENTHS == 500
DEFAULT_DAYS == 250
DEFAULT_VOL_PCT == 30
DEFAULT_RATE_PERMILLE == 30

WidgetSpots == {Tenths(n) : n \in DEFAULT_SPOT_TENTHS..MaxSpotTenths}
WidgetStrikes == {Tenths(DEFAULT_STRIKE_TENTHS)}
WidgetDays == {DEFAULT_DAYS}
WidgetVols == {0, Percent(DEFAULT_VOL_PCT)}
WidgetRates == {Permille(DEFAULT_RATE_PERMILLE)}

NoCall == [fn |-> "none", spot |-> 0, strike |-> 0, rate |-> 0, maturity |-> 0,
           vol |-> 0, option_type |-> ""]
NoResult == [kind |-> "none", val |-> NoValue, exc |-> "", sidebar |-> FALSE]
NoArgs == [spot |-> PyFloat(0), strike |-> 0, rate |-> 0, maturity |-> 0,
           vol |-> 0, option_type |-> ""]

Call(fn, spot, strike, rate, maturity, vol, ot) ==
    [fn |-> fn, spot |-> spot.v, strike |-> strike, rate |-> rate,
     maturity |-> maturity, vol |-> vol, option_type |-> ot]

Init ==
    /\ interest_rate \in WidgetRates
    /\ spot_price \in WidgetSpots
    /\ strike_price \in WidgetStrikes
    /\ days_to_maturity \in WidgetDays
    /\ volatility \in WidgetVols
    /\ option_type_selection \in {"Call", "Put"}
    /\ maturity_time = 0
    /\ option_type = ""
    /\ spot_prices_range = << >>
    /\ option_prices = << >> /\ deltas = << >> /\ gammas = << >>
    /\ thetas = << >> /\ vegas = << >> /\ rhos = << >>
    /\ metrics = << >>
    /\ sidebar_errors = 0
    /\ pc = "start"
    /\ args = NoArgs
    /\ last_call = NoCall
    /\ result = NoResult

\* days_to_maturity / 365
years(days) == MulDiv(days, SCALE, DAYS_PER_YEAR)

\* faulty variant: np.arange(0, stop - 1), the end point left out
arange_exclusive(stop) ==
    [i \in 1..((stop - 1) \div SCALE) |-> (i - 1) * SCALE]

\* np.arange(0, stop): ceil(stop) values 0.0, 1.0, 2.0, ...
arange(stop) ==
    [i \in 1..((stop + SCALE - 1) \div SCALE) |-> (i - 1) * SCALE]

SWEEP_EXTENT == 50

\* lines 94-98
ReadInputs ==
    /\ pc = "start"
    /\ maturity_time' = years(days_to_maturity)
    /\ option_type' = (IF option_type_selection = "Call" THEN "call" ELSE "put")
    /\ spot_prices_range' = arange(spot_price + SWEEP_EXTENT * SCALE + 1 * SCALE)
    /\ pc' = "option_prices"
    /\ UNCHANGED <<widgets, series, metrics, sidebar_errors, args, last_call,
                   result>>

\* The list element a call contributes: its return value, None after a caught
\* failure.
Value(o) == IF o.kind = "return" THEN o.val ELSE NoValue

\* The calls of the six list comprehensions, lines 100-105
\* faulty variant: the option type fixed to "call"
option_prices_call_only(spot) ==
    compute_option_price(NpFloat(spot), strike_price, interest_rate,
                         maturity_time, volatility, "call")

option_prices_at(spot) ==
    compute_option_price(NpFloat(spot), strike_price, interest_rate,
                         maturity_time, volatility, option_type)

deltas_at(spot) ==
    compute_delta(NpFloat(spot), strike_price, interest_rate, maturity_time,
                  volatility, option_type)

gammas_at(spot) ==
    compute_gamma(NpFloat(spot), strike_price, interest_rate, maturity_time,
                  volatility)

thetas_at(spot) ==
    compute_theta(NpFloat(spot), strike_price, interest_rate, maturity_time,
                  volatility, option_type)

vegas_at(spot) ==
    compute_vega(NpFloat(spot), strike_price, interest_rate, maturity_time,
                 volatility)

rhos_at(spot) ==
    compute_rho(NpFloat(spot), strike_price, interest_rate, maturity_time,
                volatility, option_type)

\* One iteration of a comprehension over spot_prices_range: the outcome of the
\* call (result') extends the list xs; an exception ends the script.
Iterate(fn, ot, xs, next) ==
    /\ last_call' = Call(fn, NpFloat(spot_prices_range[Len(xs) + 1]),
                         strike_price, interest_rate, maturity_time,
                         volatility, ot)
    /\ sidebar_errors' = sidebar_errors + (IF result'.sidebar THEN 1 ELSE 0)
    /\ pc' = IF result'.kind = "raise" THEN "crashed"
             ELSE IF Len(xs) + 1 = Len(spot_prices_range) THEN next
             ELSE pc
    /\ UNCHANGED <<widgets, globals, metrics, args>>

\* the list xs after the iteration
Extended(xs) ==
    IF result'.kind = "raise" THEN xs ELSE Append(xs, Value(result'))

Sweep_option_prices ==
    /\ pc = "option_prices"
    /\ result' = option_prices_at(spot_prices_range[Len(option_prices) + 1])
    /\ Iterate("compute_option_price", option_type, option_prices, "deltas")
    /\ option_prices' = Extended(option_prices)
    /\ UNCHANGED <<deltas, gammas, thetas, vegas, rhos>>

Sweep_deltas ==
    /\ pc = "deltas"
    /\ result' = deltas_at(spot_prices_range[Len(deltas) + 1])
    /\ Iterate("compute_delta", option_type, deltas, "gammas")
    /\ deltas' = Extended(deltas)
    /\ UNCHANGED <<option_prices, gammas, thetas, vegas, rhos>>

Sweep_gammas ==
    /\ pc = "gammas"
    /\ result' = gammas_at(spot_prices_range[Len(gammas) + 1])
    /\ Iterate("compute_gamma", "", gammas, "thetas")
    /\ gammas' = Extended(gammas)
    /\ UNCHANGED <<option_prices, deltas, thetas, vegas, rhos>>

Sweep_thetas ==
    /\ pc = "thetas"
    /\ result' = thetas_at(spot_prices_range[Len(thetas) + 1])
    /\ Iterate("compute_theta", option_type, thetas, "vegas")
    /\ thetas' = Extended(thetas)
    /\ UNCHANGED <<option_prices, deltas, gammas, vegas, rhos>>

Sweep_vegas ==
    /\ pc = "vegas"
    /\ result' = vegas_at(spot_prices_range[Len(vegas) + 1])
    /\ Iterate("compute_vega", "", vegas, "rhos")
    /\ vegas' = Extended(vegas)
    /\ UNCHANGED <<option_prices, deltas, gammas, thetas, rhos>>

Sweep_rhos ==
    /\ pc = "rhos"
    /\ result' = rhos_at(spot_prices_range[Len(rhos) + 1])
    /\ Iterate("compute_rho", option_type, rhos, "metrics")
    /\ rhos' = Extended(rhos)
    /\ UNCHANGED <<option_prices, deltas, gammas, thetas, vegas>>

\* round(x, 3) of a float64: to the nearest thousandth, ties to even; nan and
\* the infinities stay.  The result is in thousandths.
round3(x) ==
    IF x.k # "fin" THEN [k |-> x.k, milli |-> 0]
    ELSE LET unit == SCALE \div 1000
             q == x.v \div unit
             r == x.v % unit
         IN  [k |-> "fin",
              milli |-> IF 2 * r < unit THEN q
                        ELSE IF 2 * r > unit THEN q + 1
                        ELSE IF q % 2 = 0 THEN q ELSE q + 1]

\* The seven st.metric cells of lines 160-168: label, function, option type
METRIC_CELLS ==
    << [label |-> "Call Price", fn |-> "compute_option_price", ot |-> "call"],
       [label |-> "Put Price", fn |-> "compute_option_price", ot |-> "put"],
       [label |-> "Delta", fn |-> "compute_delta", ot |-> "call"],
       [label |-> "Gamma", fn |-> "compute_gamma", ot |-> ""],
       [label |-> "Theta", fn |-> "compute_theta", ot |-> "call"],
       [label |-> "Vega", fn |-> "compute_vega", ot |-> ""],
       [label |-> "Rho", fn |-> "compute_rho", ot |-> "call"] >>

\* a call of the engine function named fn
apply(fn, spot, strike, rate, maturity, vol, ot) ==
    IF fn = "compute_option_price"
    THEN compute_option_price(spot, strike, rate, maturity, vol, ot)
    ELSE IF fn = "compute_delta"
    THEN compute_delta(spot, strike, rate, maturity, vol, ot)
    ELSE IF fn = "compute_gamma"
    THEN compute_gamma(spot, strike, rate, maturity, vol)
    ELSE IF fn = "compute_theta"
    THEN compute_theta(spot, strike, rate, maturity, vol, ot)
    ELSE IF fn = "compute_vega"
    THEN compute_vega(spot, strike, rate, maturity, vol)
    ELSE compute_rho(spot, strike, rate, maturity, vol, ot)

\* One st.metric(label, str(round(compute_*(spot_price, ...), 3))) statement.
\* round(None, 3) raises TypeError.
DisplayMetric ==
    /\ pc = "metrics"
    /\ LET cell == METRIC_CELLS[Len(metrics) + 1]
       IN  /\ result' = apply(cell.fn, PyFloat(spot_price), strike_price,
                              interest_rate, maturity_time, volatility, cell.ot)
           /\ last_call' = Call(cell.fn, PyFloat(spot_price), strike_price,
                                interest_rate, maturity_time, volatility, cell.ot)
           /\ metrics' = IF result'.kind = "return"
                         THEN Append(metrics, [label |-> cell.label,
                                               text |-> round3(result'.val)])
                         ELSE metrics
    /\ sidebar_errors' = sidebar_errors + (IF result'.sidebar THEN 1 ELSE 0)
    /\ pc' = IF result'.kind # "return" THEN "crashed"
             ELSE IF Len(metrics) + 1 = Len(METRIC_CELLS) THEN "done"
             ELSE pc
    /\ UNCHANGED <<widgets, globals, series, args>>

Next ==
    \/ ReadInputs
    \/ Sweep_option_prices
    \/ Sweep_deltas
    \/ Sweep_gammas
    \/ Sweep_thetas
    \/ Sweep_vegas
    \/ Sweep_rhos
    \/ DisplayMetric

Spec == Init /\ [][Next]_vars

(***************************************************************************)
(* Direct calls of the engine functions on an argument tuple               *)
(***************************************************************************)
EngineSpots ==
    {[v |-> s, np |-> b] : s \in WidgetSpots, b \in BOOLEAN}
EngineStrikes == {0, Tenths(DEFAULT_SPOT_TENTHS), Tenths(DEFAULT_STRIKE_TENTHS)}
EngineRates == {0} \cup WidgetRates
EngineMaturities == {0} \cup {years(d) : d \in DEFAULT_DAYS..MaxDays}
EngineVols == {0} \cup {Percent(n) : n \in DEFAULT_VOL_PCT..MaxVolPct}
EngineOptionTypes == {"call", "put", "straddle"}

EngineArgs ==
    [spot : EngineSpots, strike : EngineStrikes, rate : EngineRates,
     maturity : EngineMaturities, vol : EngineVols,
     option_type : EngineOptionTypes]

EngineInit ==
    /\ args \in EngineArgs
    /\ pc = "engine"
    /\ sidebar_errors = 0
    /\ last_call = NoCall
    /\ result = NoResult
    /\ interest_rate = Permille(DEFAULT_RATE_PERMILLE)
    /\ spot_price = Tenths(DEFAULT_SPOT_TENTHS)
    /\ strike_price = Tenths(DEFAULT_STRIKE_TENTHS)
    /\ days_to_maturity = DEFAULT_DAYS
    /\ volatility = Percent(DEFAULT_VOL_PCT)
    /\ option_type_selection = "Call"
    /\ maturity_time = 0
    /\ option_type = ""
    /\ spot_prices_range = << >>
    /\ option_prices = << >> /\ deltas = << >> /\ gammas = << >>
    /\ thetas = << >> /\ vegas = << >> /\ rhos = << >>
    /\ metrics = << >>

\* One call fn(args.spot, ..., args.vol[, args.option_type]) from outside the
\* script, with outcome result'; the only state it can touch is the sidebar.
EngineCall(fn, ot) ==
    /\ pc = "engine"
    /\ last_call = NoCall
    /\ sidebar_errors' = sidebar_errors + (IF result'.sidebar THEN 1 ELSE 0)
    /\ last_call' = Call(fn, args.spot, args.strike, args.rate, args.maturity,
                         args.vol, ot)
    /\ UNCHANGED <<widgets, globals, series, metrics, pc, args>>

Call_compute_option_price ==
    /\ result' = compute_option_price(args.spot, args.strike, args.rate,
                                      args.maturity, args.vol, args.option_type)
    /\ EngineCall("compute_option_price", args.option_type)

Call_compute_delta ==
    /\ result' = compute_delta(args.spot, args.strike, args.rate,
                               args.maturity, args.vol, args.option_type)
    /\ EngineCall("compute_delta", args.option_type)

Call_compute_gamma ==
    /\ result' = compute_gamma(args.spot, args.strike, args.rate,
                               args.maturity, args.vol)
    /\ EngineCall("compute_gamma", "")

Call_compute_theta ==
    /\ result' = compute_theta(args.spot, args.strike, args.rate,
                               args.maturity, args.vol, args.option_type)
    /\ EngineCall("compute_theta", args.option_type)

Call_compute_vega ==
    /\ result' = compute_vega(args.spot, args.strike, args.rate,
                              args.maturity, args.vol)
    /\ EngineCall("compute_vega", "")

Call_compute_rho ==
    /\ result' = compute_rho(args.spot, args.strike, args.rate,
                             args.maturity, args.vol, args.option_type)
    /\ EngineCall("compute_rho", args.option_type)

EngineNext ==
    \/ Call_compute_option_price
    \/ Call_compute_delta
    \/ Call_compute_gamma
    \/ Call_compute_theta
    \/ Call_compute_vega
    \/ Call_compute_rho

EngineSpec == EngineInit /\ [][EngineNext]_vars

(***************************************************************************)
(* Properties                                                              *)
(***************************************************************************)
Called == last_call.fn # "none"
TYPED == {"compute_option_price", "compute_delta", "compute_theta", "compute_rho"}

\* the OptionParameters invariant of a call's arguments
ValidParameters(c) ==
    /\ c.spot > 0 /\ c.strike > 0 /\ c.maturity > 0 /\ c.vol > 0 /\ c.rate >= 0
    /\ vol_sqrt_maturity(c.maturity, c.vol) # Fin(0)

ZeroDenominator(c) == vol_sqrt_maturity(c.maturity, c.vol) = Fin(0)

\* C1: a call of any engine function whose vol * sqrt(maturity) is zero (the
\* other parameters valid) ends by raising a domain error: it returns no
\* number, NaN, infinity or None.
C1_DomainErrorOnZeroDenominator ==
    (/\ Called
     /\ ZeroDenominator(last_call)
     /\ last_call.spot > 0 /\ last_call.strike > 0 /\ last_call.rate >= 0
     /\ last_call.option_type \in {"call", "put", ""})
    => result.kind = "raise"

\* spot - strike * exp(-rate * maturity)
parity_rhs(a) == a.spot.v - FxMul(a.strike, Exp(-FxMul(a.rate, a.maturity)))

price_of(a, ot) ==
    compute_option_price(a.spot, a.strike, a.rate, a.maturity, a.vol, ot)

PriceCalledOnValid ==
    /\ Called
    /\ last_call.fn = "compute_option_price"
    /\ last_call.option_type \in {"call", "put"}
    /\ ValidParameters(last_call)

\* C2: put-call parity.  For valid parameters the price just returned and
\* the price of the opposite option type satisfy
\* call - put = spot - strike * exp(-rate * maturity) within a relative
\* tolerance of 1e-6 (plus one unit of 1/SCALE, the resolution of the
\* fixed-point numbers).
C2_PutCallParity ==
    PriceCalledOnValid =>
        LET c == IF last_call.option_type = "call" THEN result
                 ELSE price_of(args, "call")
            p == IF last_call.option_type = "put" THEN result
                 ELSE price_of(args, "put")
        IN  /\ c.kind = "return" /\ c.val.k = "fin"
            /\ p.kind = "return" /\ p.val.k = "fin"
            /\ Abs((c.val.v - p.val.v) - parity_rhs(args)) - 1
                   <= Abs(parity_rhs(args)) \div SCALE

C2_Witness ==
    /\ PriceCalledOnValid
    /\ last_call.option_type = "put"
    /\ result.kind = "return"
    /\ result.val.v > 0
    /\ args.spot.v # args.strike

\* C3 as stated: the swept range starts at 0, advances in steps of exactly 1
\* and ends at exactly spot_price + 50.
C3_Original ==
    pc # "start" =>
        /\ spot_prices_range[1] = 0
        /\ \A i \in 1..(Len(spot_prices_range) - 1) :
               spot_prices_range[i + 1] - spot_prices_range[i] = SCALE
        /\ spot_prices_range[Len(spot_prices_range)]
               = spot_price + SWEEP_EXTENT * SCALE

\* C3 amended: the swept range starts at 0, advances in steps of exactly 1
\* and ends at the largest whole number below spot_price + 51; that is
\* spot_price + 50 when spot_price is whole, and otherwise exceeds
\* spot_price + 50 by less than 1.
C3_SweptRange ==
    pc # "start" =>
        LET last == spot_prices_range[Len(spot_prices_range)]
            stop == spot_price + (SWEEP_EXTENT + 1) * SCALE
        IN  /\ spot_prices_range[1] = 0
            /\ \A i \in 1..(Len(spot_prices_range) - 1) :
                   spot_prices_range[i + 1] - spot_prices_range[i] = SCALE
            /\ last < stop /\ stop <= last + SCALE
            /\ spot_price % SCALE = 0 => last = spot_price + SWEEP_EXTENT * SCALE
            /\ spot_price % SCALE # 0 =>
                   /\ last > spot_price + SWEEP_EXTENT * SCALE
                   /\ last < spot_price + SWEEP_EXTENT * SCALE + SCALE

C3_Witness ==
    /\ pc # "start"
    /\ spot_price % SCALE # 0
    /\ Len(spot_prices_range) = 82

\* the lower-case option type the selectbox choice stands for
selected_type == IF option_type_selection = "Call" THEN "call" ELSE "put"

\* index of the swept point at the current spot, 0 when there is none
spot_index ==
    IF spot_price % SCALE = 0 /\ spot_price \div SCALE < Len(spot_prices_range)
    THEN spot_price \div SCALE + 1 ELSE 0

\* C4: six metrics are shown (price, delta, gamma, theta, vega, rho), each
\* computed from the entered parameters and the selected option type, and
\* delta agrees with the charted delta series at the current spot.
C4_MetricsOfSelectedType ==
    pc = "done" =>
        /\ Len(metrics) = 6
        /\ \A i \in 1..Len(metrics) :
               metrics[i].text =
                   round3(Value(apply(METRIC_CELLS[i].fn, PyFloat(spot_price),
                                      strike_price, interest_rate,
                                      years(days_to_maturity), volatility,
                                      selected_type)))
        /\ \A i \in 1..Len(metrics) :
               (metrics[i].label = "Delta" /\ spot_index # 0)
                   => metrics[i].text = round3(deltas[spot_index])

\* C5: a call of an engine function never changes the sidebar: no
\* st.sidebar.error message is ever shown by a call.
C5_NoSideEffect == [][sidebar_errors' = sidebar_errors]_vars

\* C6: for valid parameters the d2 that compute_rho computes directly equals
\* the d2 = d1 - vol * sqrt(maturity) of compute_option_price and
\* compute_theta: both are finite and, multiplied back by the common
\* denominator vol * sqrt(maturity), differ by at most the rounding of the two
\* numerators (3 units of 1/SCALE).
C6_RhoD2Equivalence ==
    (Called /\ last_call.fn = "compute_rho" /\ ValidParameters(last_call)) =>
        LET direct == rho_d2(args.spot, args.strike, args.rate, args.maturity,
                             args.vol)
            via == d2_of(d1_of(args.spot, args.strike, args.rate,
                               args.maturity, args.vol),
                         args.maturity, args.vol)
            den == vol_sqrt_maturity(args.maturity, args.vol)
        IN  /\ direct.k = "fin" /\ via.k = "fin"
            /\ FxMul(Abs(direct.v - via.v), den.v) <= 3

C6_Witness ==
    /\ Called /\ last_call.fn = "compute_rho" /\ ValidParameters(last_call)
    /\ last_call.option_type = "call"
    /\ result.kind = "return" /\ result.val.v > 0

\* the call compute_option_price(30, 50, 0.03, 250/365, 0.30, "call")
KnownValueCall ==
    Call("compute_option_price", PyFloat(Tenths(DEFAULT_SPOT_TENTHS)),
         Tenths(DEFAULT_STRIKE_TENTHS), Permille(DEFAULT_RATE_PERMILLE),
         years(DEFAULT_DAYS), Percent(DEFAULT_VOL_PCT), "call")

\* C7 as stated: the known-value call returns a price that rounds to 0.047.
C7_Original ==
    (last_call = KnownValueCall /\ ~args.spot.np) =>
        /\ result.kind = "return"
        /\ round3(result.val) = [k |-> "fin", milli |-> 47]

\* C7 amended: compute_option_price(30, 50, 0.03, 250/365, 0.30, "call")
\* returns a price that rounds to 0.086 at 3 decimal places.
C7_KnownValue ==
    (last_call = KnownValueCall /\ ~args.spot.np) =>
        /\ result.kind = "return"
        /\ round3(result.val) = [k |-> "fin", milli |-> 86]

C7_Witness ==
    /\ last_call = KnownValueCall /\ ~args.spot.np
    /\ result.kind = "return" /\ result.val.k = "fin"

\* C8: when the script is done, each of the six series has one entry per
\* swept spot, in order, and its i-th entry is the value of its compute_*
\* function at the i-th swept spot, the entered strike, rate, maturity and
\* volatility and (price, delta, theta, rho) the selected option type.
C8_SweepSeries ==
    pc = "done" =>
        LET n == Len(spot_prices_range)
            T == years(days_to_maturity)
            at(fn, i) == Value(apply(fn, NpFloat(spot_prices_range[i]),
                                     strike_price, interest_rate, T,
                                     volatility, selected_type))
        IN  /\ Len(option_prices) = n /\ Len(deltas) = n /\ Len(gammas) = n
            /\ Len(thetas) = n /\ Len(vegas) = n /\ Len(rhos) = n
            /\ \A i \in 1..n :
                   /\ option_prices[i] = at("compute_option_price", i)
                   /\ deltas[i] = at("compute_delta", i)
                   /\ gammas[i] = at("compute_gamma", i)
                   /\ thetas[i] = at("compute_theta", i)
                   /\ vegas[i] = at("compute_vega", i)
                   /\ rhos[i] = at("compute_rho", i)

C8_Witness ==
    /\ pc = "done"
    /\ option_type_selection = "Put"
    /\ Len(rhos) = Len(spot_prices_range)
    /\ Len(rhos) > SWEEP_EXTENT
    /\ volatility > 0

\* C9: every call of a compute_* function that the script makes passes
\* parameters satisfying the OptionParameters invariant.
C9_ScriptPassesValidParameters == Called => ValidParameters(last_call)

\* the call fails before its try block / inside its try block
FailsBeforeTry == Called /\ ZeroDivisionError(args.spot, args.strike)
FailsInsideTry ==
    /\ Called /\ ~FailsBeforeTry
    /\ last_call.fn \in TYPED
    /\ last_call.option_type \notin {"call", "put"}

\* C10 as stated: whatever failure occurs, also one while computing d1 and
\* d2, it is caught inside the function: no call propagates an exception.
C10_Original == Called => result.kind # "raise"

\* C10 amended: each compute_* function wraps only the statements after d1
\* and d2 in its catch-all.  A failure inside the try block is caught, the
\* sidebar message is reported and the function returns None; a failure while
\* computing d1 or d2 is not caught: it propagates to the caller and no
\* message is reported.
C10_CatchAllAfterIntermediates ==
    Called =>
        /\ FailsInsideTry =>
               /\ result.kind = "None" /\ result.sidebar
               /\ sidebar_errors >= 1
        /\ FailsBeforeTry =>
               /\ result.kind = "raise" /\ result.exc = "ZeroDivisionError"
               /\ ~result.sidebar
        /\ (~FailsInsideTry /\ ~FailsBeforeTry) => result.kind = "return"

C10_Witness ==
    /\ FailsInsideTry
    /\ result.kind = "None"
    /\ sidebar_errors = 1

====
